---- MODULE Spec2Model ----
(***************************************************************************)
(* change-poller (src/main.py): the command line and the configuration    *)
(* merge of parseArgs() and getConfig(), the per-page state tracking and   *)
(* change detection of run(), and the dispatch / retry block of main().    *)
(*                                                                         *)
(* Strings the program takes apart (urls, file names) are sequences of     *)
(* one-character strings, so that getSafeFilename and the domain regex are *)
(* computed as the code computes them.  A dict is a function whose DOMAIN  *)
(* is its key set, so "key in dict" and "del dict[key]" are what they are  *)
(* in the code.                                                            *)
(***************************************************************************)
EXTENDS Integers, Sequences, FiniteSets, TLC

\* ------------------------------------------------------------------ bounds

\* Number of page polls over all the runs the external scheduler starts: a
\* run is started while the polls of its pages fit.
MaxPolls == 2

\* Largest value int(time.time()) takes (the clock starts at 1).
MaxTime == 2

\* Longest list of -p options, and longest page list of a stored
\* configuration, the configuration merge is checked with.
MaxPages == 2

\* ------------------------------------------------------------ dict helpers

Has(d, k) == k \in DOMAIN d

Del(d, k) == [x \in DOMAIN d \ {k} |-> d[x]]

Put(d, k, v) == [x \in DOMAIN d \cup {k} |-> IF x = k THEN v ELSE d[x]]

Range(s) == {s[i] : i \in DOMAIN s}

\* ----------------------------------------------------------------- strings

Http == <<"h", "t", "t", "p", ":", "/", "/">>

UrlA == Http \o <<"a", "a", ".", "f", "i", "/", "x">>

UrlB == Http \o <<"b", "b", ".", "f", "i", "/", "y", "?", "z">>

UrlC == Http \o <<"c", "c", ".", "f", "i">>

\* The characters matched by \w (of the characters the urls use), and the
\* characters the class [^\w\-_\. ] of getSafeFilename leaves alone.
WordChars ==
    {"a", "b", "c", "d", "e", "f", "g", "h", "i", "j", "k", "l", "m",
     "n", "o", "p", "q", "r", "s", "t", "u", "v", "w", "x", "y", "z",
     "0", "1", "2", "3", "4", "5", "6", "7", "8", "9", "_"}

SafeChars == WordChars \cup {"-", "_", ".", " "}

\* Positions i of s where "://" starts.
SchemeAt(s) ==
    {i \in 1..(Len(s) - 2) : s[i] = ":" /\ s[i + 1] = "/" /\ s[i + 2] = "/"}

Min(S) == CHOOSE x \in S : \A y \in S : x <= y

Max(S) == CHOOSE x \in S : \A y \in S : x >= y

RECURSIVE StripUnderscores(_)
StripUnderscores(s) ==
    IF s = <<>> THEN s
    ELSE IF Head(s) = "_" THEN StripUnderscores(Tail(s))
    ELSE IF s[Len(s)] = "_" THEN StripUnderscores(SubSeq(s, 1, Len(s) - 1))
    ELSE s

\* re.sub('[^\w\-_\. ]', '_', re.compile('://(.*)$').search(string).group(1)).strip('_')
getSafeFilename(string) ==
    LET i    == Min(SchemeAt(string))
        rest == SubSeq(string, i + 3, Len(string))
        sub  == [k \in 1..Len(rest) |->
                    IF rest[k] \in SafeChars THEN rest[k] ELSE "_"]
    IN  StripUnderscores(sub)

\* re.compile('://(.[^/]+)').search(string).group(1): one character of any
\* kind, then the longest run of characters other than "/".
domain_regex(string) ==
    LET starts == {i \in SchemeAt(string) :
                      i + 4 <= Len(string) /\ string[i + 4] # "/"}
        i      == Min(starts)
        ends   == {j \in (i + 4)..Len(string) :
                      \A k \in (i + 4)..j : string[k] # "/"}
    IN  SubSeq(string, i + 3, Max(ends))

\* ------------------------------------------------------------ configuration

PageA == [url |-> UrlA, selector |-> "#a"]

PageB == [url |-> UrlB, selector |-> "#b", regex |-> "(.*)"]

PageSpecs == {PageA, PageB}

Fragments == {"v1", "v2"}

Titles == {"t1", "t2"}

\* The groups() a match of PageB's regex can give: none, one or two groups,
\* in either order and with a repeated fragment.
GroupTuples ==
    {<<>>, <<"v1">>, <<"v2">>, <<"v1", "v2">>, <<"v2", "v1">>, <<"v1", "v1">>}

_valid_notification_events == <<"notify", "log", "print">>

\* conf['event_list']: the default (all of them) or the ones -e gave.
EventLists == {_valid_notification_events, <<"print">>, <<>>}

\* The state files of the data directory, named by getSafeFilename.
Paths == {getSafeFilename(u) : u \in {UrlA, UrlB, UrlC}}

\* data_file = getSafeFilename(page['url']) and the domain of a URL, tabulated
\* for the URLs of the model.
data_files == [u \in {UrlA, UrlB, UrlC} |-> getSafeFilename(u)]

domains == [u \in {UrlA, UrlB, UrlC} |-> domain_regex(u)]

\* What open() finds where no file is.
NoFile == [absent |-> TRUE]

\* json.dumps(data, indent=2, sort_keys=True) + '\n': the text of a dict.
\* A tuple is written as a JSON list, which a sequence stands for as well.
formatJSON(data) == [json |-> data]

\* json.load of a file's text.
jsonLoad(text) == text.json

\* --------------------------------------------------------------- logging

\* _log(levelName, msg, *args, **kwargs), called once setupLogger has given
\* the logger its handlers: a call without msg raises TypeError, and keyword
\* arguments are passed on to Logger._log, which accepts none named "file".
\* The result is the exception the call raises, or "none".
LogCall(positional, kwargs) ==
    IF positional < 2 THEN "TypeError"
    ELSE IF "file" \in kwargs THEN "TypeError"
    ELSE "none"

\* ------------------------------------------------------------- page state

\* The defaults used when no previous data file is found.
DefaultState(page) ==
    [last_content_change |-> 0,
     last_check          |-> 0,
     title               |-> "",
     url                 |-> page.url,
     domain              |-> domains[page.url],
     content             |-> <<>>,
     error               |-> FALSE]

\* A text json.load rejects.
NotJSON == [garbage |-> TRUE]

\* Reading the previous data: open() raises OSError for a missing file and
\* json.load raises JSONDecodeError for a text that is no JSON; both end in
\* the defaults, with a warning unless the page was added in this run.
LoadState(page, fs, addedPageUrls) ==
    LET data_file == data_files[page.url]
    IN  IF fs[data_file] \in {NoFile, NotJSON}
        THEN [data |-> DefaultState(page),
              logs |-> IF page.url \in addedPageUrls
                       THEN {}
                       ELSE {<<"warning", "Data file load failed">>}]
        ELSE [data |-> jsonLoad(fs[data_file]), logs |-> {}]

\* ---------------------------------------------------- command line, config

_default_browser == "Firefox"

\* A page on the url of PageA with another selector.
PageA2 == [url |-> UrlA, selector |-> "#a2"]

\* The pages a -p option or a stored configuration can name.
PageArgs == PageSpecs \cup {PageA2}

\* No two pages of the list have the same url.
UniqueUrls(pages) ==
    \A i, j \in DOMAIN pages : pages[i].url = pages[j].url => i = j

\* The lists of at most n pages.
PageSeqs(n) == UNION {[1..m -> PageArgs] : m \in 0..n}

\* parseArgs(): argv holds the options given, "page" the list of -p options,
\* "event_list" the list of -e options, "browser" the -b option.  A url given
\* twice ends the program in parser.error.  setParams names what was given.
parseArgs(argv) ==
    LET pages == IF Has(argv, "page") THEN argv.page ELSE <<>>
    IN  IF ~UniqueUrls(pages) THEN [error |-> TRUE]
        ELSE [error     |-> FALSE,
              argConf   |-> [pages      |-> pages,
                             browser    |-> IF Has(argv, "browser")
                                            THEN argv.browser
                                            ELSE _default_browser,
                             event_list |-> IF Has(argv, "event_list")
                                            THEN argv.event_list
                                            ELSE _valid_notification_events],
              setParams |-> {IF k = "page" THEN "pages" ELSE k : k \in DOMAIN argv}]

\* type(fileConf[k]) == list: the keys whose stored value is a JSON list.
IsList(k) == k \in {"pages", "event_list"}

\* "for i in conf[k]: if i not in fileConf[k]: fileConf[k].append(i)": the
\* items of the command line the stored list does not hold, as whole values,
\* are appended; added are the appended ones.
RECURSIVE MergeList(_, _, _)
MergeList(stored, cli, added) ==
    IF cli = <<>> THEN [list |-> stored, added |-> added]
    ELSE IF Head(cli) \in Range(stored)
    THEN MergeList(stored, Tail(cli), added)
    ELSE MergeList(Append(stored, Head(cli)), Tail(cli), Append(added, Head(cli)))

MergeKey_CliWins(k, fileConf, conf, setParams) ==
    IF ~Has(conf, k) THEN fileConf[k]
    ELSE IF IsList(k) /\ k \in setParams
    THEN MergeList(fileConf[k], conf[k], <<>>).list
    ELSE conf[k]

\* The value the merge loop leaves in conf[k] for a key k of fileConf.
MergeKey(k, fileConf, conf, setParams) ==
    IF ~Has(conf, k) \/ k \notin setParams THEN fileConf[k]
    ELSE IF IsList(k) THEN MergeList(fileConf[k], conf[k], <<>>).list
    ELSE conf[k]

\* getConfig(conf, setParams) reading the text of the configuration file: the
\* merged configuration, the urls of the pages the merge appended, and
\* whether the configuration is saved as the file could not be loaded.
getConfig(conf, setParams, text) ==
    IF text \in {NoFile, NotJSON}
    THEN [conf |-> conf, addedPageUrls |-> <<>>, save_default_config |-> TRUE,
          logs |-> {<<"warning", "Failed to load config file">>}]
    ELSE LET fileConf == jsonLoad(text)
             appended == IF Has(fileConf, "pages") /\ "pages" \in setParams
                         THEN MergeList(fileConf.pages, conf.pages, <<>>).added
                         ELSE <<>>
         IN  [conf |-> [k \in DOMAIN conf \cup DOMAIN fileConf |->
                           IF Has(fileConf, k)
                           THEN MergeKey(k, fileConf, conf, setParams)
                           ELSE conf[k]],
              addedPageUrls |-> [i \in DOMAIN appended |-> appended[i].url],
              save_default_config |-> FALSE,
              logs |-> {}]

\* ------------------------------------------------------------------ fetch

\* re.search found nothing; otherwise a match object with its groups().
None == [matched |-> FALSE]

Match(groups) == [matched |-> TRUE, groups |-> groups]

\* What the browser and re.search give for one page: an exception raised by
\* browser.get or find_element_by_css_selector, or the element's text, the
\* result of re.search on it (None or the groups) and the page's title.
FetchFailures ==
    {[kind |-> k] :
        k \in {"WebDriverException", "TimeoutException", "NoSuchElementException"}}

FetchResults(page) ==
    FetchFailures \cup
    (IF Has(page, "regex")
     THEN {[kind |-> "text", text |-> "v1", match |-> None, title |-> "t1"]}
          \cup {[kind |-> "text", text |-> "v1", match |-> Match(m), title |-> t] :
                   m \in GroupTuples, t \in Titles}
     ELSE {[kind |-> "text", text |-> "", match |-> None, title |-> "t1"]}
          \cup {[kind |-> "text", text |-> x, match |-> None, title |-> t] :
                   x \in Fragments, t \in Titles})

\* The try block of the page load: the content tuple, or the exception.
Extract(page, fetched) ==
    IF fetched.kind # "text"
    THEN [ok |-> FALSE, err_type |-> fetched.kind]
    ELSE IF Has(page, "regex")
    THEN IF fetched.match = None
         THEN [ok |-> FALSE, err_type |-> "LookupError"]
         ELSE [ok |-> TRUE, content |-> fetched.match.groups]
    ELSE IF fetched.text = ""
         THEN [ok |-> FALSE, err_type |-> "LookupError"]
         ELSE [ok |-> TRUE, content |-> <<fetched.text>>]

Caught_ExactTypes(err_type) ==
    err_type \in {"WebDriverException", "NoSuchElementException", "LookupError"}

\* "except (WebDriverException, NoSuchElementException, LookupError)": the
\* clause takes the classes it names and their subclasses; selenium's
\* TimeoutException and NoSuchElementException derive from
\* WebDriverException.
Caught(err_type) ==
    err_type \in {"WebDriverException", "TimeoutException",
                  "NoSuchElementException", "LookupError"}

\* The description chosen by comparing type(err) with the three classes.
Description(err_type) ==
    IF err_type = "WebDriverException" THEN "server cannot be contacted"
    ELSE IF err_type = "NoSuchElementException" THEN "element cannot be found"
    ELSE IF err_type = "LookupError" THEN "couldn't find what we were looking for"
    ELSE "???"

IsNewFailure_Always(file_data) == TRUE

\* "if not file_data['error']": the query starts erroring out now.
IsNewFailure(file_data) == ~file_data.error

OnError_NoDescription(file_data, err_type) ==
    [data    |-> IF IsNewFailure(file_data)
                 THEN [file_data EXCEPT !.error = TRUE]
                 ELSE file_data,
     logs    |-> IF IsNewFailure(file_data)
                 THEN {<<"warning", "Query erroring out!">>}
                 ELSE {<<"info", "Query is still erroring out.">>},
     changes |-> <<>>]

\* The except branch: thing not found.
OnError(file_data, err_type) ==
    LET flagged == IF IsNewFailure(file_data)
                   THEN [file_data EXCEPT !.error = TRUE]
                   ELSE file_data
    IN  [data    |-> Put(flagged, "error_description", Description(err_type)),
         logs    |-> IF IsNewFailure(file_data)
                     THEN {<<"warning", "Query erroring out!">>}
                     ELSE {<<"info", "Query is still erroring out.">>},
         changes |-> <<>>]

ListDiff_NoFilter(a, b, ord) == SelectSeq(ord, LAMBDA i : i \in a)

\* [i for i in a if i not in b], a being a set iterated in the order ord.
ListDiff(a, b, ord) == SelectSeq(ord, LAMBDA i : i \in a /\ i \notin b)

ChangeRecord_Swapped(old, new, title, file_data, ord) ==
    [added   |-> ListDiff(old, new, ord),
     removed |-> ListDiff(new, old, ord),
     title   |-> title,
     url     |-> file_data.url,
     domain  |-> file_data.domain]

\* The entry appended to allChanges.
ChangeRecord(old, new, title, file_data, ord) ==
    [added   |-> ListDiff(new, old, ord),
     removed |-> ListDiff(old, new, ord),
     title   |-> title,
     url     |-> file_data.url,
     domain  |-> file_data.domain]

ClearError_KeepsDescription(file_data) ==
    IF file_data.error THEN [file_data EXCEPT !.error = FALSE] ELSE file_data

\* Firstly, get rid of the error if we previously had one.
ClearError(file_data) ==
    IF file_data.error
    THEN Del([file_data EXCEPT !.error = FALSE], "error_description")
    ELSE file_data

SameContent_Ordered(old_content, content) == old_content = content

\* "old == new", of old = set(file_data['content']) and new = set(content).
SameContent(old_content, content) == Range(old_content) = Range(content)

OnSuccess_StampsAlways(file_data, content, title, timestamp, ord) ==
    LET cleared == ClearError(file_data)
        old     == Range(cleared.content)
        new     == Range(content)
        logs    == IF file_data.error
                   THEN {<<"info", "Server is now responding">>}
                   ELSE {}
    IN  IF SameContent(cleared.content, content)
        THEN [data    |-> [cleared EXCEPT !.last_content_change = timestamp],
              logs    |-> logs,
              changes |-> <<>>]
        ELSE [data    |-> [cleared EXCEPT !.content = content,
                                          !.title = title,
                                          !.last_content_change = timestamp],
              logs    |-> logs,
              changes |-> <<ChangeRecord(old, new, title, cleared, ord)>>]

\* The else branch: got data successfully, diff it.  ord is the order in
\* which this run's sets iterate.
OnSuccess(file_data, content, title, timestamp, ord) ==
    LET cleared == ClearError(file_data)
        old     == Range(cleared.content)
        new     == Range(content)
    IN  IF SameContent(cleared.content, content)
        THEN [data    |-> cleared,
              logs    |-> IF file_data.error
                          THEN {<<"info", "Server is now responding">>}
                          ELSE {},
              changes |-> <<>>]
        ELSE [data    |-> [cleared EXCEPT !.content = content,
                                          !.title = title,
                                          !.last_content_change = timestamp],
              logs    |-> IF file_data.error
                          THEN {<<"info", "Server is now responding">>}
                          ELSE {},
              changes |-> <<ChangeRecord(old, new, title, cleared, ord)>>]

UpdateCheck_Never(file_data, timestamp) == file_data

\* Did we find the data or not, update the check timestamp.
UpdateCheck(file_data, timestamp) == [file_data EXCEPT !.last_check = timestamp]

\* ------------------------------------------------------------ persistence

\* A name run() has not assigned yet: reading it raises NameError.
Unbound == <<>>

EmptyDict == [k \in {} |-> k]

\* React to url change (a data file that holds new_url).  The first
\* statement calls _log with one argument, the two adjacent string literals
\* being one string, so the call raises before anything is changed.
Migrate(page, file_data, data_file, old_data_file) ==
    IF ~Has(file_data, "new_url")
    THEN [data |-> file_data, data_file |-> data_file,
          old_data_file |-> old_data_file, exc |-> "none"]
    ELSE IF LogCall(1, {}) # "none"
    THEN [data |-> file_data, data_file |-> data_file,
          old_data_file |-> old_data_file, exc |-> LogCall(1, {})]
    ELSE [data |-> [Del(file_data, "new_url") EXCEPT
                        !.url = file_data.new_url,
                        !.domain = domains[page.url]],
          data_file |-> data_files[page.url],
          old_data_file |-> data_file,
          exc |-> "none"]

\* How the write of a data file can go: it succeeds, open() raises OSError
\* and the file is as it was, or f.write raises OSError after open() has
\* truncated the file, which leaves a text that is no JSON.
DiskOutcomes == {"ok", "open fails", "write fails"}

\* The write of the data file and what follows it.  os.remove(old_data_file)
\* raises NameError (caught: no url update) while old_data_file is unbound,
\* and OSError when the file is not there.  An OSError, of the write or of
\* the removal, enters the handler that queues the save for later: its _log
\* call passes file=sys.stderr, and its next statement reads change_data,
\* a name run() never assigns.
Persist(data_file, file_data, old_data_file, fs, tryAgain, disk) ==
    LET written == [fs EXCEPT ![data_file] = formatJSON(file_data)]
        handler(fs1) ==
            IF LogCall(2, {"file"}) # "none"
            THEN [files |-> fs1, tryAgain |-> tryAgain,
                  exc |-> LogCall(2, {"file"})]
            ELSE [files |-> fs1, tryAgain |-> tryAgain, exc |-> "NameError"]
    IN  IF disk = "open fails"
        THEN handler(fs) @@ [write |-> "OSError"]
        ELSE IF disk = "write fails"
        THEN handler([fs EXCEPT ![data_file] = NotJSON]) @@ [write |-> "OSError"]
        ELSE IF old_data_file = Unbound
        THEN [files |-> written, tryAgain |-> tryAgain, exc |-> "none",
              write |-> "ok"]
        ELSE IF written[old_data_file] = NoFile
        THEN handler(written) @@ [write |-> "ok"]
        ELSE [files |-> [written EXCEPT ![old_data_file] = NoFile],
              tryAgain |-> tryAgain, exc |-> "none", write |-> "ok"]

\* One iteration of the page loop of run(): the data file read, the url
\* change, the fetch, the diff and the write.  The result holds the new
\* values of run()'s state and what the iteration did.
PollResult(page, fs, tryAgain, old_data_file, addedPageUrls, timestamp, fetched, ord, disk) ==
    LET ld  == LoadState(page, fs, addedPageUrls)
        mig == Migrate(page, ld.data, data_files[page.url], old_data_file)
        ex  == Extract(page, fetched)
        det == IF ex.ok
               THEN OnSuccess(mig.data, ex.content, fetched.title, timestamp, ord)
               ELSE OnError(mig.data, ex.err_type)
        fd  == UpdateCheck(det.data, timestamp)
        pr  == Persist(mig.data_file, fd, mig.old_data_file, fs, tryAgain, disk)
    IN  IF mig.exc # "none"
        THEN [files |-> fs, tryAgain |-> tryAgain, changes |-> <<>>,
              old_data_file |-> old_data_file, exc |-> mig.exc,
              poll |-> [url |-> page.url, data_file |-> mig.data_file,
                        pre |-> ld.data, logs |-> ld.logs,
                        found |-> fs[data_files[page.url]] \notin {NoFile, NotJSON},
                        fetch |-> "not reached", write |-> "not reached",
                        offered |-> [fetch_ok |-> ex.ok, write_ok |-> disk = "ok"],
                        timestamp |-> timestamp,
                        exc |-> mig.exc]]
        ELSE IF ~ex.ok /\ ~Caught(ex.err_type)
        THEN [files |-> fs, tryAgain |-> tryAgain, changes |-> <<>>,
              old_data_file |-> mig.old_data_file, exc |-> ex.err_type,
              poll |-> [url |-> page.url, data_file |-> mig.data_file,
                        pre |-> ld.data, logs |-> ld.logs,
                        found |-> fs[data_files[page.url]] \notin {NoFile, NotJSON},
                        fetch |-> ex.err_type, write |-> "not reached",
                        offered |-> [fetch_ok |-> ex.ok, write_ok |-> disk = "ok"],
                        timestamp |-> timestamp,
                        exc |-> ex.err_type]]
        ELSE [files |-> pr.files, tryAgain |-> pr.tryAgain,
              changes |-> det.changes,
              old_data_file |-> mig.old_data_file, exc |-> pr.exc,
              poll |-> [url |-> page.url, data_file |-> mig.data_file,
                        pre |-> ld.data, post |-> fd,
                        found |-> fs[data_files[page.url]] \notin {NoFile, NotJSON},
                        logs |-> ld.logs \cup det.logs,
                        fetch |-> IF ex.ok THEN "ok" ELSE ex.err_type,
                        content |-> IF ex.ok THEN ex.content ELSE <<>>,
                        title |-> IF ex.ok THEN fetched.title ELSE "",
                        timestamp |-> timestamp,
                        changes |-> det.changes,
                        write |-> pr.write, exc |-> pr.exc]]

\* ------------------------------------------------------------------ main

\* The order in which main() runs the notification events.
SinkOrder == <<"log", "print", "notify">>

NoBatch == [changed_count |-> 0]

\* The orders in which the keys of a dict can iterate.
KeyOrders(d) ==
    {k \in [1..Cardinality(DOMAIN d) -> DOMAIN d] : Range(k) = DOMAIN d}

RetryWrite_Aborts(data_file, text, outcome, acc) ==
    [files    |-> IF outcome = "ok" /\ acc.warnings = <<>>
                  THEN [acc.files EXCEPT ![data_file] = text]
                  ELSE acc.files,
     attempts |-> IF acc.warnings = <<>> THEN Append(acc.attempts, data_file)
                  ELSE acc.attempts,
     warnings |-> IF outcome = "ok" \/ acc.warnings # <<>> THEN acc.warnings
                  ELSE Append(acc.warnings, data_file)]

\* One iteration of "for data_file in tryAgain": the open and the write in a
\* try of their own, an OSError logged as a warning.
RetryWrite(data_file, text, outcome, acc) ==
    [files    |-> [acc.files EXCEPT ![data_file] =
                      IF outcome = "ok" THEN text
                      ELSE IF outcome = "write fails" THEN NotJSON
                      ELSE @],
     attempts |-> Append(acc.attempts, data_file),
     warnings |-> IF outcome = "ok" THEN acc.warnings
                  ELSE Append(acc.warnings, data_file)]

\* The loop over tryAgain in the order keys, from the files and logs of acc.
RECURSIVE RetryLoop(_, _, _, _)
RetryLoop(keys, tryAgain, disk, acc) ==
    IF keys = <<>> THEN acc
    ELSE RetryLoop(Tail(keys), tryAgain, disk,
                   RetryWrite(Head(keys), tryAgain[Head(keys)],
                              disk[Head(keys)], acc))

\* The retry of the saves that failed, the body of main()'s finally block:
\* keys is the order the dict iterates in, disk the outcome of each write.
RetryPass(tryAgain, fs, keys, disk) ==
    LET r == RetryLoop(keys, tryAgain, disk,
                       [files |-> fs, attempts |-> <<>>, warnings |-> <<>>])
    IN  [files    |-> r.files,
         attempts |-> r.attempts,
         retried  |-> Range(r.attempts),
         warnings |-> Range(r.warnings),
         warned   |-> r.warnings]

Dispatch_Always(changes, event_list, timestamp, failing) ==
    LET events == SelectSeq(SinkOrder, LAMBDA e : e \in Range(event_list))
        raises == \E i \in DOMAIN events : events[i] = failing
    IN  [batch     |-> [timestamp     |-> timestamp,
                        changed_count |-> Len(changes),
                        change_data   |-> changes],
         delivered |-> IF raises
                       THEN SubSeq(events, 1,
                                   (CHOOSE i \in DOMAIN events :
                                       events[i] = failing) - 1)
                       ELSE events,
         exc       |-> IF raises THEN "OSError" ELSE "none"]

\* The try block of main(): the summary and the notification events, run
\* in the order log, print, notify; failing is the event that raises, if any.
Dispatch(changes, event_list, timestamp, failing) ==
    LET events == IF Len(changes) = 0 THEN <<>>
                  ELSE SelectSeq(SinkOrder, LAMBDA e : e \in Range(event_list))
        raises == \E i \in DOMAIN events : events[i] = failing
    IN  [batch     |-> IF Len(changes) = 0 THEN NoBatch
                       ELSE [timestamp     |-> timestamp,
                             changed_count |-> Len(changes),
                             change_data   |-> changes],
         delivered |-> IF raises
                       THEN SubSeq(events, 1,
                                   (CHOOSE i \in DOMAIN events :
                                       events[i] = failing) - 1)
                       ELSE events,
         exc       |-> IF raises THEN "OSError" ELSE "none"]

MainTailResult_NoFinally(changes, tryAgain, event_list, fs, timestamp, failing, keys, disk) ==
    LET d == Dispatch(changes, event_list, timestamp, failing)
    IN  IF d.exc # "none"
        THEN d @@ [files |-> fs, attempts |-> <<>>, retried |-> {},
                   warnings |-> {}, warned |-> <<>>]
        ELSE d @@ RetryPass(tryAgain, fs, keys, disk)

\* What main() does once run() has returned: the try block, and the finally
\* block that saves again what tryAgain holds, whatever the try block did.
MainTailResult(changes, tryAgain, event_list, fs, timestamp, failing, keys, disk) ==
    Dispatch(changes, event_list, timestamp, failing)
        @@ RetryPass(tryAgain, fs, keys, disk)

\* ------------------------------------------------------------------ state

VARIABLES
    argv,           \* the command line the scheduler starts the program with
    config_file,    \* the text of the configuration file
    startup,        \* what the latest parseArgs() and getConfig() did
    conf,           \* the merged configuration
    addedPageUrls,  \* the urls of the pages getConfig appended
    files,          \* the data directory: the text of each state file
    clock,          \* the last value of int(time.time())
    runs,           \* invocations of the program so far
    polls,          \* iterations of the page loop so far
    pc,             \* where the process is
    idx,            \* the index in conf.pages of the page polled next
    allChanges,     \* run()'s list of change records
    tryAgain,       \* run()'s dict of failed saves, by data file
    old_data_file,  \* run()'s name of that kind
    lastPoll,       \* what the latest iteration of the page loop did
    polled,         \* the urls the page loop of this run has taken, in order
    hist,           \* per url, how its latest completed poll went
    mainResult      \* what main() did after run() returned

vars == <<argv, config_file, startup, conf, addedPageUrls, files, clock, runs, polls, pc, idx, allChanges,
          tryAgain, old_data_file, lastPoll, polled, hist, mainResult>>

Urls == {p.url : p \in PageSpecs}

NoPoll == [url |-> <<>>]

NoMain == [retried |-> {}, warnings |-> {}, attempts |-> <<>>]

Never == [never |-> TRUE]

\* The orders in which a set of fragments can iterate.
Orders == {o \in [1..Cardinality(Fragments) -> Fragments] : Range(o) = Fragments}

Timestamps == {t \in {clock, clock + 1} : t <= MaxTime}

\* The state a page's first poll leaves, at time 1, when the fetch gives the
\* one fragment "v1" under the title "t1".
StoredState(page) ==
    UpdateCheck(OnSuccess(DefaultState(page), <<"v1">>, "t1", 1,
                          CHOOSE o \in Orders : TRUE).data, 1)

\* The same state after the user has written the page's new url into it.
MovedState(page) == Put(StoredState(page), "new_url", UrlC)

\* The data directories a run can start from: for each configured page no
\* state file yet, the file of an earlier run, or that file with new_url.
InitFiles(pages) ==
    {fs \in [Paths -> {NoFile} \cup {formatJSON(StoredState(p)) : p \in PageSpecs}
                              \cup {formatJSON(MovedState(p)) : p \in PageSpecs}] :
        \A path \in Paths :
            \/ fs[path] = NoFile
            \/ \E i \in DOMAIN pages :
                  /\ path = data_files[pages[i].url]
                  /\ fs[path] \in {formatJSON(StoredState(pages[i])),
                                  formatJSON(MovedState(pages[i]))}}

\* The text of a configuration file the program saved.
StoredConf(pages) ==
    formatJSON([pages      |-> pages,
                browser    |-> _default_browser,
                event_list |-> _valid_notification_events])

NoArgs == EmptyDict

\* The command lines and configuration files the runs are checked with:
\* the stored pages alone, a page of the command line next to them, and the
\* first run, which finds no configuration file.
Scenarios ==
    {[config_file |-> StoredConf(<<>>),             argv |-> NoArgs],
     [config_file |-> StoredConf(<<PageB>>),        argv |-> NoArgs],
     [config_file |-> StoredConf(<<PageA, PageB>>), argv |-> NoArgs],
     [config_file |-> StoredConf(<<PageA>>),        argv |-> [page |-> <<PageB>>]],
     [config_file |-> StoredConf(<<>>),             argv |-> [page |-> <<PageA>>]],
     [config_file |-> NoFile,                       argv |-> [page |-> <<PageA>>]]}

\* The pages a scenario names, in the stored file or on the command line.
ScenarioPages(sc) ==
    (IF sc.config_file = NoFile THEN <<>> ELSE jsonLoad(sc.config_file).pages)
        \o (IF Has(sc.argv, "page") THEN sc.argv.page ELSE <<>>)

NoStartup == [error |-> FALSE, stored |-> NoFile, logs |-> {}]

Init ==
    /\ \E sc \in Scenarios :
          /\ argv = sc.argv
          /\ config_file = sc.config_file
          /\ files \in InitFiles(ScenarioPages(sc))
    /\ startup = NoStartup
    /\ conf = EmptyDict
    /\ addedPageUrls = {}
    /\ clock = 1
    /\ runs = 0
    /\ polls = 0
    /\ pc = "not running"
    /\ idx = 0
    /\ allChanges = <<>>
    /\ tryAgain = EmptyDict
    /\ old_data_file = Unbound
    /\ lastPoll = NoPoll
    /\ polled = <<>>
    /\ hist = [u \in Urls |->
                  IF files[data_files[u]] = NoFile THEN Never
                  ELSE [failed |-> FALSE, written |-> TRUE]]
    /\ mainResult = NoMain

\* The scheduler starts the program: parseArgs() and getConfig().  A
\* configuration that could not be loaded is saved, and an OSError of that
\* save ends the program.
Configure ==
    /\ pc \in {"not running", "exit", "crashed"}
    /\ runs < MaxPolls
    /\ polls < MaxPolls
    /\ runs' = runs + 1
    /\ LET a == parseArgs(argv)
       IN  IF a.error
           THEN /\ startup' = [error |-> TRUE, stored |-> config_file,
                               logs |-> {}]
                /\ pc' = "usage"
                /\ UNCHANGED <<conf, addedPageUrls, config_file>>
           ELSE \E disk \in DiskOutcomes :
                   LET g     == getConfig(a.argConf, a.setParams, config_file)
                       saves == g.save_default_config
                   IN  /\ startup' = [error |-> FALSE, stored |-> config_file,
                                      logs |-> g.logs, argConf |-> a.argConf,
                                      setParams |-> a.setParams,
                                      addedPageUrls |-> g.addedPageUrls]
                       /\ conf' = g.conf
                       /\ addedPageUrls' = Range(g.addedPageUrls)
                       /\ config_file' =
                             IF ~saves \/ disk = "open fails" THEN config_file
                             ELSE IF disk = "write fails" THEN NotJSON
                             ELSE formatJSON(g.conf)
                       /\ pc' = IF saves /\ disk # "ok" THEN "crashed"
                                ELSE "configured"
    \* a new process: nothing of the run before it is left but the files
    /\ idx' = 0
    /\ allChanges' = <<>>
    /\ tryAgain' = EmptyDict
    /\ old_data_file' = Unbound
    /\ lastPoll' = NoPoll
    /\ polled' = <<>>
    /\ mainResult' = NoMain
    /\ UNCHANGED <<argv, files, clock, polls, hist>>

\* main() calls run(): run() up to its page loop.  With no pages run()
\* warns and returns.
Invoke ==
    /\ pc = "configured"
    /\ polls + Len(conf.pages) <= MaxPolls
    /\ allChanges' = <<>>
    /\ tryAgain' = EmptyDict
    /\ old_data_file' = Unbound
    /\ lastPoll' = NoPoll
    /\ polled' = <<>>
    /\ mainResult' = NoMain
    /\ idx' = 1
    /\ pc' = IF Len(conf.pages) = 0 THEN "returned" ELSE "loop"
    /\ UNCHANGED <<argv, config_file, startup, conf, addedPageUrls, runs,
                   files, clock, polls, hist>>

\* One iteration of "for page in conf['pages']".  An exception that leaves
\* the loop leaves run() and main() as well: the call of run() is not inside
\* main()'s try block.
PollPage ==
    /\ pc = "loop"
    /\ \E timestamp \in Timestamps, fetched \in FetchResults(conf.pages[idx]),
          ord \in Orders, disk \in DiskOutcomes :
          LET page == conf.pages[idx]
              r    == PollResult(page, files, tryAgain, old_data_file,
                                 addedPageUrls, timestamp, fetched, ord, disk)
          IN  /\ files' = r.files
              /\ tryAgain' = r.tryAgain
              /\ old_data_file' = r.old_data_file
              /\ allChanges' = allChanges \o r.changes
              /\ lastPoll' = r.poll @@ [prev |-> hist[page.url],
                                         changes_before |-> Len(allChanges)]
              /\ hist' = IF r.poll.fetch = "not reached" THEN hist
                         ELSE [hist EXCEPT ![page.url] =
                                  [failed  |-> r.poll.fetch # "ok",
                                   written |-> r.poll.write = "ok"]]
              /\ polled' = Append(polled, page.url)
              /\ clock' = timestamp
              /\ polls' = polls + 1
              /\ pc' = IF r.exc # "none" THEN "crashed"
                       ELSE IF idx = Len(conf.pages) THEN "returned"
                       ELSE "loop"
              /\ idx' = IF r.exc # "none" THEN idx ELSE idx + 1
              \* run() does not read addedPageUrls after its last iteration
              /\ addedPageUrls' = IF r.exc = "none" /\ idx < Len(conf.pages)
                                  THEN addedPageUrls ELSE {}
    /\ UNCHANGED <<argv, config_file, startup, conf, runs, mainResult>>

\* main() after run() has returned: the summary, the notification events and
\* the finally block.
MainTail ==
    /\ pc = "returned"
    \* the clock is read (line 70) only when there are changes
    /\ \E timestamp \in IF Len(allChanges) = 0 THEN {clock} ELSE Timestamps,
          failing \in {"none"} \cup Range(SinkOrder),
          keys \in KeyOrders(tryAgain),
          disk \in [DOMAIN tryAgain -> DiskOutcomes] :
          LET r == MainTailResult(allChanges, tryAgain, conf.event_list, files,
                                  timestamp, failing, keys, disk)
          IN  /\ files' = r.files
              /\ mainResult' = [batch |-> r.batch, delivered |-> r.delivered,
                                exc |-> r.exc, retried |-> r.retried,
                                attempts |-> r.attempts, warned |-> r.warned,
                                outcomes |-> disk,
                                warnings |-> r.warnings, deferred |-> tryAgain]
              /\ clock' = timestamp
    /\ pc' = "exit"
    /\ UNCHANGED <<argv, config_file, startup, conf, addedPageUrls, runs,
                   polls, idx, allChanges, tryAgain, old_data_file, lastPoll,
                   polled, hist>>

Next == Configure \/ Invoke \/ PollPage \/ MainTail

Spec == Init /\ [][Next]_vars

\* ----------------------------------------------------------------- claims

\* The latest iteration of the page loop reached the fetch.
Polled == Has(lastPoll, "post")

FetchOK == Polled /\ lastPoll.fetch = "ok"

FetchFailed == Polled /\ lastPoll.fetch # "ok"

\* The fetched fragments are, as a set, the stored content.
SameSet == Range(lastPoll.content) = Range(lastPoll.pre.content)

\* The poll classified the failure as a new one (warning severity).
NewFailure == <<"warning", "Query erroring out!">> \in lastPoll.logs

\* The previous poll of the same page failed to fetch.
PrevFailed == Has(lastPoll.prev, "failed") /\ lastPoll.prev.failed

\* The number of change records the latest poll appended.
Appended == Len(allChanges) - lastPoll.changes_before

\* C1 as stated: after a successful fetch whose fragment set equals the stored
\* content's set, no ChangeRecord is appended and the state is the prior state
\* with only last_check changed.
C1_Original ==
    (FetchOK /\ SameSet) =>
        /\ Appended = 0
        /\ lastPoll.post = [lastPoll.pre EXCEPT !.last_check = lastPoll.timestamp]

\* C1 amended: after a successful fetch whose fragment set equals the stored
\* content's set (in any order, with any repetition), no ChangeRecord is
\* appended, content, title and last_content_change are as they were, and
\* last_check is the poll's timestamp; the only other change is that error
\* becomes false and error_description is removed when the prior state had
\* error = true.
C1_Unchanged ==
    (FetchOK /\ SameSet) =>
        /\ Appended = 0
        /\ lastPoll.post.content = lastPoll.pre.content
        /\ lastPoll.post.title = lastPoll.pre.title
        /\ lastPoll.post.last_content_change = lastPoll.pre.last_content_change
        /\ lastPoll.post.last_check = lastPoll.timestamp
        /\ lastPoll.post.error = FALSE
        /\ DOMAIN lastPoll.post = DOMAIN lastPoll.pre \ {"error_description"}
        /\ \A k \in DOMAIN lastPoll.post \ {"last_check", "error"} :
              lastPoll.post[k] = lastPoll.pre[k]
        /\ ~lastPoll.pre.error =>
              lastPoll.post =
                  [lastPoll.pre EXCEPT !.last_check = lastPoll.timestamp]

\* The same set fetched in another order, under another title, at a later time.
C1_Witness ==
    /\ FetchOK /\ SameSet
    /\ lastPoll.content # lastPoll.pre.content
    /\ lastPoll.title # lastPoll.pre.title
    /\ lastPoll.timestamp # lastPoll.pre.last_check

\* C2: after a successful fetch whose fragment set differs from the stored
\* content's set, exactly one ChangeRecord is appended, its added is the new
\* set minus the old one and its removed the old set minus the new one, each
\* fragment listed once, the two are disjoint, and content is the fetched
\* tuple in fetch order, title the fetched title and last_content_change the
\* poll's timestamp.
C2_ChangeRecord ==
    (FetchOK /\ ~SameSet) =>
        LET old == Range(lastPoll.pre.content)
            new == Range(lastPoll.content)
            rec == allChanges[Len(allChanges)]
        IN  /\ Appended = 1
            /\ Range(rec.added) = new \ old
            /\ Range(rec.removed) = old \ new
            /\ Len(rec.added) = Cardinality(new \ old)
            /\ Len(rec.removed) = Cardinality(old \ new)
            /\ Range(rec.added) \cap Range(rec.removed) = {}
            /\ lastPoll.post.content = lastPoll.content
            /\ lastPoll.post.title = lastPoll.title
            /\ lastPoll.post.last_content_change = lastPoll.timestamp

\* A change whose stored set and fetched set overlap without being equal.
C2_Witness ==
    /\ FetchOK /\ ~SameSet
    /\ Range(lastPoll.pre.content) \cap Range(lastPoll.content) # {}
    /\ Len(lastPoll.content) = 2
    /\ Appended = 1

C4_Recovery ==
    (FetchOK /\ PrevFailed) =>
        /\ lastPoll.post.error = FALSE
        /\ ~Has(lastPoll.post, "error_description")
        /\ lastPoll.write = "ok" =>
              files[lastPoll.data_file] = formatJSON(lastPoll.post)

\* A recovery: the stored state had the error and its description.
C4_Witness ==
    /\ FetchOK /\ PrevFailed
    /\ lastPoll.pre.error
    /\ Has(lastPoll.pre, "error_description")
    /\ lastPoll.write = "ok"

\* C5: after a failing fetch of any kind no ChangeRecord is appended, error is
\* true, last_check is the poll's timestamp, and content, title and
\* last_content_change are as they were.
C5_FailureFrame ==
    FetchFailed =>
        /\ Appended = 0
        /\ lastPoll.post.error = TRUE
        /\ lastPoll.post.last_check = lastPoll.timestamp
        /\ lastPoll.post.content = lastPoll.pre.content
        /\ lastPoll.post.title = lastPoll.pre.title
        /\ lastPoll.post.last_content_change = lastPoll.pre.last_content_change

\* A failure of a page that has content, at a time after its last check.
C5_Witness ==
    /\ FetchFailed
    /\ lastPoll.pre.content # <<>>
    /\ lastPoll.pre.last_check # lastPoll.timestamp
    /\ lastPoll.fetch = "TimeoutException"

\* The latest iteration of the page loop found new_url in the state file.
Migrating == Has(lastPoll, "pre") /\ Has(lastPoll.pre, "new_url")

\* The write of the latest iteration raised OSError.
WriteFailed == Polled /\ lastPoll.write = "OSError"

\* C6: a page stored under slug(A) with new_url = B, polled once with a fetch
\* and a write that succeed, leaves at slug(B) a state file with url = B, the
\* domain of B and no new_url, and leaves no state file at slug(A).
C6_Claim ==
    (Migrating /\ lastPoll.offered.fetch_ok /\ lastPoll.offered.write_ok) =>
        LET A == lastPoll.url
            B == lastPoll.pre.new_url
        IN  /\ Has(files[data_files[B]], "json")
            /\ files[data_files[B]].json.url = B
            /\ files[data_files[B]].json.domain = domains[B]
            /\ ~Has(files[data_files[B]].json, "new_url")
            /\ files[data_files[B]].json.last_check = lastPoll.timestamp
            /\ files[data_files[A]] = NoFile

\* C7: when the write of a page's state file fails, the page's serialized
\* state is in tryAgain under the file's path and no error leaves the page
\* loop, so the pages after it are polled.
C7_Claim ==
    WriteFailed =>
        /\ Has(tryAgain, lastPoll.data_file)
        /\ tryAgain[lastPoll.data_file] = formatJSON(lastPoll.post)
        /\ lastPoll.exc = "none"
        /\ pc # "crashed"

\* C8: once the process has ended, a state whose first write failed and whose
\* retry did not fail is in the page's state file, byte for byte as a first
\* write that succeeds leaves it.
C8_Claim ==
    (pc \in {"exit", "crashed"} /\ WriteFailed
        /\ lastPoll.data_file \notin mainResult.warnings) =>
        files[lastPoll.data_file] = formatJSON(lastPoll.post)

\* C9: when an error has interrupted the page loop, the retry pass has run for
\* every state file whose write failed before the interruption.
C9_Claim ==
    (pc = "crashed" /\ WriteFailed) =>
        lastPoll.data_file \in mainResult.retried

\* ------------------------------------------------- main() after run()

\* What the keys of tryAgain can hold: serialized page states.
Payloads ==
    {formatJSON(StoredState(p)) : p \in PageSpecs}
        \cup {formatJSON(OnError(StoredState(p), "LookupError").data) :
                 p \in PageSpecs}

\* The lists of change records run() can return for the pages A and B.
ChangeLists ==
    LET rec(p) == ChangeRecord({}, {"v1"}, "t1", DefaultState(p),
                               CHOOSE o \in Orders : TRUE)
    IN  {<<>>, <<rec(PageB)>>, <<rec(PageA), rec(PageB)>>}

\* main() at the return of run(), for every pair (changes, tryAgain) of the
\* shapes run()'s return statement hands over, under every event list.
InitMain ==
    /\ argv = NoArgs
    /\ config_file = StoredConf(<<PageA, PageB>>)
    /\ startup = NoStartup
    /\ conf \in [pages : {<<PageA, PageB>>}, event_list : EventLists,
                  browser : {_default_browser}]
    /\ addedPageUrls = {}
    /\ files \in InitFiles(conf.pages)
    /\ clock = 1
    /\ runs = 1
    /\ polls = Len(conf.pages)
    /\ pc = "returned"
    /\ idx = Len(conf.pages) + 1
    /\ allChanges \in ChangeLists
    /\ tryAgain \in UNION {[S -> Payloads] :
                              S \in SUBSET {data_files[u] : u \in Urls}}
    /\ old_data_file = Unbound
    /\ lastPoll = NoPoll
    /\ polled = [i \in DOMAIN conf.pages |-> conf.pages[i].url]
    /\ hist = [u \in Urls |-> Never]
    /\ mainResult = NoMain

SpecMain == InitMain /\ [][MainTail]_vars

\* C10: once run() has returned with a tryAgain that is not empty, the retry
\* pass has written every file of it once main() ends, also when a
\* notification event raised.
C10_RetryAfterDispatch ==
    (pc = "exit" /\ mainResult.deferred # EmptyDict) =>
        /\ mainResult.retried = DOMAIN mainResult.deferred
        /\ \A p \in mainResult.retried \ mainResult.warnings :
              files[p] = mainResult.deferred[p]

\* A notification event raised after some of them ran, and the retry pass
\* wrote a file.
C10_Witness ==
    /\ pc = "exit"
    /\ mainResult.exc # "none"
    /\ mainResult.delivered # <<>>
    /\ \E p \in mainResult.retried \ mainResult.warnings :
          files[p] = mainResult.deferred[p]

\* C11: the retry pass writes every file of tryAgain exactly once, in a try of
\* its own: a write that fails is logged as a warning and the pass goes on
\* with the other files, whose texts reach the disk; no file is tried twice.
C11_RetryEachOnce ==
    pc = "exit" =>
        /\ Len(mainResult.attempts) = Cardinality(DOMAIN mainResult.deferred)
        /\ Range(mainResult.attempts) = DOMAIN mainResult.deferred
        /\ mainResult.warnings =
              {p \in DOMAIN mainResult.deferred : mainResult.outcomes[p] # "ok"}
        /\ Len(mainResult.warned) = Cardinality(mainResult.warnings)
        /\ \A p \in DOMAIN mainResult.deferred :
              mainResult.outcomes[p] = "ok" => files[p] = mainResult.deferred[p]

\* The first file of the retry pass could not be written, and the second
\* one was.
C11_Witness ==
    /\ pc = "exit"
    /\ Len(mainResult.attempts) = 2
    /\ mainResult.outcomes[mainResult.attempts[1]] # "ok"
    /\ mainResult.attempts[1] \in mainResult.warnings
    /\ mainResult.outcomes[mainResult.attempts[2]] = "ok"
    /\ files[mainResult.attempts[2]] = mainResult.deferred[mainResult.attempts[2]]

\* ------------------------------------------------- the configuration merge

\* The dict d without the keys outside D.
Project(d, D) == [k \in D |-> d[k]]

\* The command lines: any of -p (at most MaxPages of them), -e and -b.
Argvs ==
    {Project(r, D) :
        r \in [page       : PageSeqs(MaxPages) \ {<<>>},
               event_list : {<<"print">>, <<"log", "print">>},
               browser    : {"Chrome"}],
        D \in SUBSET {"page", "event_list", "browser"}}

\* The configuration files: none, one that is no JSON, and the JSON of a
\* dict with any of the keys, its pages with unique urls.
ConfigTexts ==
    {NoFile, NotJSON} \cup
    {formatJSON(Project(r, D)) :
        r \in [pages      : {l \in PageSeqs(MaxPages) : UniqueUrls(l)},
               event_list : {_valid_notification_events, <<"log">>},
               browser    : {_default_browser, "Chrome"}],
        D \in SUBSET {"pages", "event_list", "browser"}}

\* The program is started with any command line on any configuration file.
InitConfig ==
    /\ argv \in Argvs
    /\ config_file \in ConfigTexts
    /\ startup = NoStartup
    /\ conf = EmptyDict
    /\ addedPageUrls = {}
    /\ files = [path \in Paths |-> NoFile]
    /\ clock = 1
    /\ runs = 0
    /\ polls = 0
    /\ pc = "not running"
    /\ idx = 0
    /\ allChanges = <<>>
    /\ tryAgain = EmptyDict
    /\ old_data_file = Unbound
    /\ lastPoll = NoPoll
    /\ polled = <<>>
    /\ hist = [u \in Urls |-> Never]
    /\ mainResult = NoMain

SpecConfig == InitConfig /\ [][Configure]_vars

\* getConfig() returned, having loaded the configuration file.
Merged == pc = "configured" /\ Has(startup.stored, "json")

\* The page list of the stored configuration.
StoredPages ==
    IF Has(jsonLoad(startup.stored), "pages")
    THEN jsonLoad(startup.stored).pages ELSE <<>>

StoredUrls == {StoredPages[i].url : i \in DOMAIN StoredPages}

\* C12: after the merge of a stored page list with unique urls and a command
\* line page list with unique urls, no two pages of the merged list have the
\* same url, and no appended page has the url of a stored page.
C12_Claim ==
    Merged =>
        /\ UniqueUrls(conf.pages)
        /\ addedPageUrls \cap StoredUrls = {}

\* C13: merging a stored configuration with a command line without -p gives
\* the stored page list, in the stored order, and no added url.
C13_MergeNoPages ==
    (Merged /\ ~Has(argv, "page")) =>
        /\ conf.pages = StoredPages
        /\ startup.addedPageUrls = <<>>
        /\ addedPageUrls = {}

\* A stored list of two pages was merged with a command line that has other
\* options, but no -p.
C13_Witness ==
    /\ Merged
    /\ ~Has(argv, "page")
    /\ argv # NoArgs
    /\ Len(StoredPages) = 2
    /\ conf.pages = StoredPages

\* C17: the merged page list is the stored list followed by the pages of the
\* command line whose url the stored list does not have, in their order; a
\* stored key the command line did not set has the stored value, and a
\* scalar key both set has the value of the command line.
C17_Claim ==
    Merged =>
        LET fileConf == jsonLoad(startup.stored)
        IN  /\ conf.pages =
                  StoredPages \o SelectSeq(startup.argConf.pages,
                                           LAMBDA i : i.url \notin StoredUrls)
            /\ \A k \in DOMAIN fileConf :
                  k \notin startup.setParams => conf[k] = fileConf[k]
            /\ \A k \in DOMAIN fileConf \cap startup.setParams :
                  ~IsList(k) => conf[k] = startup.argConf[k]

\* ------------------------------------------------------ newly added pages

\* The urls of the pages of the configuration getConfig() found stored.
StartupUrls ==
    IF Has(startup.stored, "json") /\ Has(jsonLoad(startup.stored), "pages")
    THEN {jsonLoad(startup.stored).pages[i].url :
             i \in DOMAIN jsonLoad(startup.stored).pages}
    ELSE {}

\* The latest iteration of the page loop found no state file it could load.
NoState == Has(lastPoll, "pre") /\ ~lastPoll.found

LoadWarning == <<"warning", "Data file load failed">> \in lastPoll.logs

\* C14: a page without a loadable state file is polled from the default
\* state; no warning is logged for it when the stored configuration has no
\* entry for its url (also when there is no stored configuration), and a
\* warning is logged when the page is not newly added.
C14_Claim ==
    NoState =>
        /\ lastPoll.pre = DefaultState([url |-> lastPoll.url])
        /\ lastPoll.url \notin StartupUrls => ~LoadWarning
        /\ lastPoll.url \in StartupUrls => LoadWarning

\* ------------------------------------------------- the pages of one run

\* The latest iteration of the page loop left the fetch with an exception.
FetchRaised == Has(lastPoll, "fetch") /\ lastPoll.fetch \notin {"ok", "not reached"}

\* C15: the page loop takes the pages of the configured list once each, in
\* the order of the list, all of them when run() returns; an iteration whose
\* fetch fails (transport error, element not found, no match) and whose
\* write succeeds leaves the loop running, and the loop is left early only
\* by a url change or a failed write; and an iteration, whatever its
\* fetch gives, changes no state file but the one of its page and appends no
\* change record but one of its page.
C15_FetchContained ==
    /\ polled = [i \in 1..Len(polled) |-> conf.pages[i].url]
    /\ pc \in {"returned", "exit"} => Len(polled) = Len(conf.pages)
    /\ (pc = "crashed" /\ polled # <<>>) =>
          Migrating \/ lastPoll.write = "OSError"
    /\ (FetchRaised /\ lastPoll.write # "OSError") =>
          /\ lastPoll.exc = "none"
          /\ pc # "crashed"
          /\ lastPoll.post.error
    /\ pc = "loop" =>
          \A timestamp \in Timestamps, fetched \in FetchResults(conf.pages[idx]),
             ord \in Orders, disk \in DiskOutcomes :
             LET page == conf.pages[idx]
                 r    == PollResult(page, files, tryAgain, old_data_file,
                                    addedPageUrls, timestamp, fetched, ord, disk)
             IN  /\ \A path \in Paths \ {data_files[page.url]} :
                       r.files[path] = files[path]
                 /\ Len(r.changes) <= 1
                 /\ \A i \in DOMAIN r.changes : r.changes[i].url = page.url
                 /\ r.tryAgain = tryAgain
                 /\ r.old_data_file = old_data_file

\* run() returned from a list of two pages: the fetch of the first page had
\* failed, and the second page, polled after it, gave a change record.
C15_Witness ==
    /\ pc = "returned"
    /\ Len(polled) = 2
    /\ hist[polled[1]] # Never
    /\ hist[polled[1]].failed
    /\ lastPoll.url = polled[2]
    /\ FetchOK
    /\ Len(allChanges) = 1
    /\ allChanges[1].url = polled[2]

\* --------------------------------------------------------- the change batch

\* The place of a url in the order the pages were polled in.
PolledAt(url) == CHOOSE i \in DOMAIN polled : polled[i] = url

\* C16: when main() ends, the batch was built and events were run only if
\* run() returned at least one change record; changed_count is the number of
\* records, the batch holds them as run() returned them, no page has two of
\* them, and they are in the order the pages were polled in.  With no
\* pages there is no batch and no event runs.
C16_Batch ==
    pc = "exit" =>
        /\ Len(allChanges) = 0 =>
              mainResult.batch = NoBatch /\ mainResult.delivered = <<>>
        /\ Len(allChanges) > 0 =>
              /\ mainResult.batch.changed_count = Len(allChanges)
              /\ mainResult.batch.change_data = allChanges
        /\ \A i, j \in DOMAIN allChanges :
              i < j => /\ allChanges[i].url # allChanges[j].url
                       /\ allChanges[i].url \in Range(polled)
                       /\ allChanges[j].url \in Range(polled)
                       /\ PolledAt(allChanges[i].url) < PolledAt(allChanges[j].url)
        /\ \A i \in DOMAIN allChanges : allChanges[i].url \in Range(polled)
        /\ Len(conf.pages) = 0 => Len(allChanges) = 0

\* main() ended after the events ran on a batch of two records, one of
\* each of the two pages polled.
C16_Witness ==
    /\ pc = "exit"
    /\ mainResult.batch.changed_count = 2
    /\ mainResult.delivered = SinkOrder
    /\ mainResult.batch.change_data[1].url = polled[1]
    /\ mainResult.batch.change_data[2].url = polled[2]

\* ---------------------------------------------------- failure categories

\* The three failure categories: unreachable, not found, no match.
Categories ==
    {Description("WebDriverException"), Description("NoSuchElementException"),
     Description("LookupError")}

\* C18: every failure of the fetch, a timeout included, leaves
\* error_description at one of the three categories, and a timeout leaves it
\* at the category of the unreachable server.
C18_Claim ==
    (FetchRaised /\ Has(lastPoll, "post")) =>
        /\ Has(lastPoll.post, "error_description")
        /\ lastPoll.post.error_description \in Categories
        /\ lastPoll.fetch = "TimeoutException" =>
              lastPoll.post.error_description = Description("WebDriverException")

\* ------------------------------------------- the write and the old file

\* run() at the write of a page's state (line 580), for every state file
\* name it can write to, with old_data_file unbound or bound to any file
\* name, on every data directory.  migrated tells whether this iteration
\* bound old_data_file (lines 481-492) or an earlier iteration of the run
\* did: no statement of the loop unbinds it.
InitPersist ==
    /\ argv = NoArgs
    /\ config_file = StoredConf(<<PageA, PageB>>)
    /\ startup = NoStartup
    /\ conf = jsonLoad(StoredConf(<<PageA, PageB>>))
    /\ addedPageUrls = {}
    /\ files \in [Paths -> {NoFile} \cup
                              {formatJSON(StoredState(p)) : p \in PageSpecs}]
    /\ clock = 1
    /\ runs = 1
    /\ polls = 0
    /\ pc = "write"
    /\ idx = 1
    /\ allChanges = <<>>
    /\ tryAgain = EmptyDict
    /\ old_data_file \in {Unbound} \cup Paths
    /\ \E page \in PageSpecs, data_file \in Paths, migrated \in BOOLEAN :
          /\ migrated => old_data_file # Unbound
          /\ lastPoll = [url |-> page.url, data_file |-> data_file,
                         post |-> StoredState(page), migrated |-> migrated]
    /\ polled = <<>>
    /\ hist = [u \in Urls |-> Never]
    /\ mainResult = NoMain

\* Lines 580-599 of run(): the write of the state file, the removal of the
\* old file and the exception handlers.
PersistFile ==
    /\ pc = "write"
    /\ \E disk \in DiskOutcomes :
          LET r == Persist(lastPoll.data_file, lastPoll.post, old_data_file,
                           files, tryAgain, disk)
          IN  /\ files' = r.files
              /\ tryAgain' = r.tryAgain
              /\ lastPoll' = [write |-> r.write, exc |-> r.exc,
                              before |-> files] @@ lastPoll
              /\ pc' = IF r.exc # "none" THEN "crashed" ELSE "written"
    /\ UNCHANGED <<argv, config_file, startup, conf, addedPageUrls, clock,
                   runs, polls, idx, allChanges, old_data_file, polled, hist,
                   mainResult>>

SpecPersist == InitPersist /\ [][PersistFile]_vars

C20_DescriptionIffError ==
    /\ \A path \in Paths :
          Has(files[path], "json") =>
              (Has(jsonLoad(files[path]), "error_description")
                  <=> jsonLoad(files[path]).error)
    /\ Polled =>
          (Has(lastPoll.post, "error_description") <=> lastPoll.post.error)

\* A page whose previous poll failed and was written with its description
\* is polled with success, and the state written has neither.
C20_Witness ==
    /\ FetchOK
    /\ lastPoll.pre.error
    /\ Has(lastPoll.pre, "error_description")
    /\ lastPoll.write = "ok"
    /\ files[lastPoll.data_file] = formatJSON(lastPoll.post)
    /\ ~lastPoll.post.error
    /\ ~Has(lastPoll.post, "error_description")

\* ------------------------------------------- the pages after a url change

C22_Timestamps ==
    /\ \A path \in Paths :
          Has(files[path], "json") =>
              jsonLoad(files[path]).last_content_change
                  <= jsonLoad(files[path]).last_check
    /\ Polled =>
          /\ lastPoll.post.last_content_change <= lastPoll.post.last_check
          /\ lastPoll.post.last_check = lastPoll.timestamp
          /\ lastPoll.pre.last_check <= lastPoll.timestamp
          /\ lastPoll.post.last_content_change # lastPoll.pre.last_content_change
                => /\ lastPoll.changes # <<>>
                   /\ lastPoll.changes[1].url = lastPoll.url
                   /\ lastPoll.post.last_content_change = lastPoll.timestamp

\* A page whose content last changed at time 1 is polled later: the content
\* differs, a change record is appended, and the state written has both
\* timestamps at the time of this poll.
C22_Witness ==
    /\ Polled
    /\ lastPoll.pre.last_content_change = 1
    /\ lastPoll.timestamp > 1
    /\ lastPoll.changes # <<>>
    /\ lastPoll.post.last_content_change = lastPoll.timestamp
    /\ lastPoll.write = "ok"
    /\ files[lastPoll.data_file] = formatJSON(lastPoll.post)

\* ------------------------------------------------- the first successful poll

\* C23: a successful fetch that gives at least one fragment for a page whose
\* stored content is empty, as in the default state, appends one change
\* record of the page: added holds each fetched fragment once and removed
\* is empty.
C23_FirstChange ==
    (FetchOK /\ lastPoll.pre.content = <<>> /\ lastPoll.content # <<>>) =>
        /\ Len(lastPoll.changes) = 1
        /\ Appended = 1
        /\ allChanges[Len(allChanges)] = lastPoll.changes[1]
        /\ lastPoll.changes[1].url = lastPoll.url
        /\ Range(lastPoll.changes[1].added) = Range(lastPoll.content)
        /\ Len(lastPoll.changes[1].added) = Cardinality(Range(lastPoll.content))
        /\ lastPoll.changes[1].removed = <<>>
        /\ lastPoll.post.content = lastPoll.content

\* A page without a state file is polled for the first time and the fetch
\* gives two fragments: the change record has both as added.
C23_Witness ==
    /\ FetchOK
    /\ ~lastPoll.found
    /\ lastPoll.pre = DefaultState([url |-> lastPoll.url])
    /\ Cardinality(Range(lastPoll.content)) = 2
    /\ Len(lastPoll.changes) = 1
    /\ Len(lastPoll.changes[1].added) = 2
    /\ lastPoll.changes[1].removed = <<>>

====
